---- MODULE Spec2Model ----
(***************************************************************************)
(* A model of app.py (ALISA, a Streamlit chat front-end): the in-memory    *)
(* conversation, the two storage backends (SQLite, Supabase), configuration*)
(* resolution and the completion call.                                     *)
(*                                                                         *)
(* Four specifications:                                                    *)
(*   Spec      one step = one run of the script (one Streamlit rerun),     *)
(*             with every outcome of the completion endpoint               *)
(*   SpecStore the same runs, with every session, user and backend fault   *)
(*   SpecSave  two contexts running sqlite_save_messages statement by      *)
(*             statement against the same database file                    *)
(*   SpecCfg   get_api_key / get_model applied to layered sources          *)
(*                                                                         *)
(* Values read from the endpoint and from the configuration are strings,   *)
(* as the code expects them to be.                                         *)
(***************************************************************************)
EXTENDS Integers, Sequences, FiniteSets, TLC

VARIABLES
    messages,     \* st.session_state.messages
    name,         \* st.session_state.name
    session_id,   \* st.session_state.session_id
    db,           \* rows of the SQLite table messages, in id order
    sb,           \* rows of the Supabase table messages, in id order
    raised,       \* the last run ended in an uncaught exception
    warnings,     \* st.warning calls of the last run
    loaded,       \* what the Load handler of the last run asked for and got
    saved,        \* the latest save that reached storage
    faulted,      \* backend operations of the last run that hit an I/O fault
    calls,        \* call_openai_compatible invocations of the last run
    posts,        \* requests.post attempts to /chat/completions of the last run
    payload,      \* payload["messages"] of the last completion request
    resp,         \* what the completion endpoint answered in the last run
    atReply,      \* messages when the reply step (line 312) was reached
    system_prompt,\* the sidebar's System Prompt text area
    ctx,          \* SpecSave: per context, its turns and its position in the save
    lock,         \* SpecSave: the context holding SQLite's write lock, 0 if none
    cfg           \* SpecCfg: the sources given and the values resolved

vars == <<messages, name, session_id, db, sb, raised, warnings, loaded, saved,
          faulted, calls, posts, payload, resp, atReply, system_prompt, ctx, lock, cfg>>

appVars == <<messages, name, session_id, sb, raised, warnings, loaded, saved,
             faulted, calls, posts, payload, resp, atReply, system_prompt>>

(***************************************************************************)
(* Bounds of the model.                                                    *)
(***************************************************************************)
MaxMsgs == 5
MaxRows == 4
MaxChatRows == 2
MaxBatch == 2
MaxStrLen == 2

(***************************************************************************)
(* Program constants.                                                      *)
(***************************************************************************)
DefaultLimit == 50
BodyCut == 400
SttBodyCut == 300

NONE == "<None>"

Truthy(s) == s \notin {"", NONE}

Min(a, b) == IF a <= b THEN a ELSE b

(***************************************************************************)
(* Sequence helpers: rows[::-1], rows[:n].                                 *)
(***************************************************************************)
Reverse(s) == [i \in 1..Len(s) |-> s[Len(s) + 1 - i]]

Take(s, n) == SubSeq(s, 1, Min(n, Len(s)))

(***************************************************************************)
(* Message contents.  A content is a text, possibly prefixed with          *)
(* "My name is {name}. " or suffixed with the current date and time, or    *)
(* one of the warning strings (tag # "text": the string starts with the    *)
(* warning sign), which may embed a status code and a cut response body    *)
(* (kept by its length).                                                   *)
(***************************************************************************)
Txt(t) == [tag |-> "text", name |-> "", text |-> t, code |-> 0, blen |-> 0, suffix |-> ""]

Warn(tag, t, code, blen) ==
    [tag |-> tag, name |-> "", text |-> t, code |-> code, blen |-> blen, suffix |-> ""]

IsWarning(c) == c.tag # "text"

NonEmpty(c) == IsWarning(c) \/ c.name # "" \/ c.text # "" \/ c.suffix # ""

WithName(n, c) == [c EXCEPT !.name = n]

Msg(r, c) == [role |-> r, content |-> c]

Placeholder == Msg("system", Txt("You are ALISA."))

NonSystem(ms) == SelectSeq(ms, LAMBDA m : m.role # "system")

(***************************************************************************)
(* Storage rows.  A table is the sequence of its rows in id order.         *)
(***************************************************************************)
Row(sid, user, m) ==
    [session_id |-> sid, user_name |-> user, role |-> m.role, content |-> m.content]

RowsOf(sid, user, ms) == [i \in 1..Len(ms) |-> Row(sid, user, ms[i])]

Turns(rows) == [i \in 1..Len(rows) |-> Msg(rows[i].role, rows[i].content)]

(***************************************************************************)
(* SQLite.  sqlite3.connect opens a connection in the module's default     *)
(* transaction mode: the first INSERT opens a transaction, whose rows      *)
(* reach the table at conn.commit().  A connection dropped before          *)
(* conn.commit() loses them.                                               *)
(***************************************************************************)
sqlite_connect == [pending |-> <<>>]

sqlite_execute(conn, row) == [pending |-> Append(conn.pending, row)]

sqlite_commit_distinct(tbl, conn) ==
    tbl \o SelectSeq(conn.pending,
                     LAMBDA r : \A i \in 1..Len(tbl) :
                         <<tbl[i].session_id, tbl[i].role, tbl[i].content>>
                             # <<r.session_id, r.role, r.content>>)

sqlite_commit(tbl, conn) == tbl \o conn.pending

sqlite_abandon_autocommit(tbl, conn) == tbl \o conn.pending

sqlite_abandon(tbl, conn) == tbl

RECURSIVE sqlite_insert_loop(_, _)
sqlite_insert_loop(conn, rows) ==
    IF rows = <<>> THEN conn
    ELSE sqlite_insert_loop(sqlite_execute(conn, Head(rows)), Tail(rows))

(* faultAt = k > 0: the k-th cur.execute of the loop raises. *)
sqlite_save_messages(tbl, sid, user, ms, faultAt) ==
    LET rows  == RowsOf(sid, user, NonSystem(ms))
        fails == faultAt \in 1..Len(rows)
        done  == IF fails THEN faultAt - 1 ELSE Len(rows)
        conn  == sqlite_insert_loop(sqlite_connect, SubSeq(rows, 1, done))
    IN  IF fails
        THEN [table |-> sqlite_abandon(tbl, conn), raised |-> TRUE, rows |-> <<>>]
        ELSE [table |-> sqlite_commit(tbl, conn), raised |-> FALSE, rows |-> rows]

(* WHERE session_id=? / WHERE user_name=? ORDER BY id DESC LIMIT ?, then rows[::-1]. *)
(* A NULL parameter matches no row.                                                    *)
sqlite_select_newest_first(tbl, sid, user, limit) ==
    LET match == IF Truthy(sid)
                 THEN SelectSeq(tbl, LAMBDA r : r.session_id = sid)
                 ELSE SelectSeq(tbl, LAMBDA r : user # NONE /\ r.user_name = user)
    IN  Take(Reverse(match), limit)

sqlite_select(tbl, sid, user, limit) ==
    LET match == IF Truthy(sid)
                 THEN SelectSeq(tbl, LAMBDA r : r.session_id = sid)
                 ELSE SelectSeq(tbl, LAMBDA r : user # NONE /\ r.user_name = user)
    IN  Reverse(Take(Reverse(match), limit))

sqlite_load_messages(tbl, sid, user, limit, fault) ==
    IF fault
    THEN [rows |-> <<>>, raised |-> TRUE]
    ELSE [rows |-> sqlite_select(tbl, sid, user, limit), raised |-> FALSE]

(***************************************************************************)
(* Supabase.  client = FALSE: supabase_client() returned None.             *)
(***************************************************************************)
supabase_save_messages(tbl, client, sid, user, ms, fault) ==
    LET rows == RowsOf(sid, user, NonSystem(ms))
    IN  IF ~client THEN [table |-> tbl, warnings |-> {}, rows |-> <<>>]
        ELSE IF fault
        THEN [table |-> tbl, warnings |-> {"Supabase insert failed"}, rows |-> <<>>]
        ELSE [table |-> tbl \o rows, warnings |-> {}, rows |-> rows]

supabase_select(tbl, sid, user, limit) ==
    LET match == IF Truthy(sid)
                 THEN SelectSeq(tbl, LAMBDA r : r.session_id = sid)
                 ELSE IF Truthy(user)
                 THEN SelectSeq(tbl, LAMBDA r : r.user_name = user)
                 ELSE tbl
    IN  Reverse(Take(Reverse(match), limit))

supabase_load_messages(tbl, client, sid, user, limit, fault) ==
    IF ~client THEN [rows |-> <<>>, warnings |-> {}]
    ELSE IF fault THEN [rows |-> <<>>, warnings |-> {"Supabase fetch failed"}]
    ELSE [rows |-> supabase_select(tbl, sid, user, limit), warnings |-> {}]

(***************************************************************************)
(* Configuration.  A configured string is a sequence of characters; an     *)
(* environment variable or a secret may also be unset.                     *)
(***************************************************************************)
Chars == {" ", "X", "Y"}

Strs == UNION {[1..n -> Chars] : n \in 0..MaxStrLen}

Unset == [set |-> FALSE, val |-> <<>>]

Opt(S) == {Unset} \cup {[set |-> TRUE, val |-> v] : v \in S}

DefaultModelName == <<"gpt-4o-mini">>

RECURSIVE lstrip(_)
lstrip(s) == IF s # <<>> /\ Head(s) = " " THEN lstrip(Tail(s)) ELSE s

strip(s) == Reverse(lstrip(Reverse(lstrip(s))))

(* os.getenv(k): None when unset.  x or y: y when x is None or "". *)
getenv_truthy(e) == e.set /\ e.val # <<>>

(* st.secrets.get(k, default) *)
secrets_get(sec, default) == IF sec.set THEN sec.val ELSE default

get_api_key(explicit, env, sec) ==
    strip(IF explicit # <<>> THEN explicit
          ELSE IF getenv_truthy(env) THEN env.val
          ELSE secrets_get(sec, <<>>))

get_model(explicit, env, sec) ==
    strip(IF explicit # <<>> THEN explicit
          ELSE IF getenv_truthy(env) THEN env.val
          ELSE secrets_get(sec, DefaultModelName))

(***************************************************************************)
(* The completion call.  An endpoint outcome is a transport fault or a     *)
(* response with a status, a body of blen characters that is JSON or not,  *)
(* and the content field of a JSON body.                                   *)
(***************************************************************************)
Transport == [kind |-> "transport", status |-> 0, blen |-> 0, json |-> FALSE, content |-> ""]

Response(status, blen, json, content) ==
    [kind |-> "response", status |-> status, blen |-> blen, json |-> json, content |-> content]

NoResp == [kind |-> "none", status |-> 0, blen |-> 0, json |-> FALSE, content |-> ""]

fetch_now(timeOk) == IF timeOk THEN "now (Asia/Karachi)" ELSE "now (server)"

(* line 201: f"API error {r.status_code}: {r.text[:400]}" *)
api_error_uncut(status, blen) == Warn("API error", "", status, blen)

api_error(status, blen) == Warn("API error", "", status, Min(blen, BodyCut))

(* lines 191-193 *)
build_messages_keep_all(ms, prompt, now_str) ==
    <<Msg("system", [Txt(prompt) EXCEPT !.suffix = now_str])>>
    \o [i \in 1..Len(ms) |-> Msg(ms[i].role, ms[i].content)]

build_messages(ms, prompt, now_str) ==
    LET hist == SelectSeq(ms, LAMBDA m : m.role \in {"user", "assistant"})
    IN  <<Msg("system", [Txt(prompt) EXCEPT !.suffix = now_str])>>
        \o [i \in 1..Len(hist) |-> Msg(hist[i].role, hist[i].content)]

call_openai_compatible(ms, prompt, used_key, timeOk, http) ==
    IF used_key = <<>>
    THEN [reply |-> Warn("No API key found", "", 0, 0), posts |-> 0,
          payload |-> <<>>, raised |-> FALSE]
    ELSE LET msgs == build_messages(ms, prompt, fetch_now(timeOk))
             reply ==
                 IF http.kind = "transport" THEN Warn("Request failed", "transport", 0, 0)
                 ELSE IF http.status # 200 THEN api_error(http.status, http.blen)
                 ELSE IF ~http.json THEN Warn("Request failed", "malformed", 0, 0)
                 ELSE IF http.content = "" THEN Warn("Empty response from model", "", 0, 0)
                 ELSE Txt(http.content)
         IN  [reply |-> reply, posts |-> 1, payload |-> msgs, raised |-> FALSE]

(* lines 209-224 *)
transcribe_audio(key, http) ==
    IF key = <<>> THEN Warn("No API key for STT", "", 0, 0)
    ELSE IF http.kind = "transport" THEN Warn("STT failed", "transport", 0, 0)
    ELSE IF http.status # 200 THEN Warn("STT error", "", http.status, Min(http.blen, SttBodyCut))
    ELSE IF ~http.json THEN Warn("STT failed", "malformed", 0, 0)
    ELSE Txt(http.content)

(***************************************************************************)
(* One run of the script (lines 85-322).  The inputs of a run are the      *)
(* widget values and what the collaborators answer during it.              *)
(***************************************************************************)
SQLITE == "SQLite (built-in)"
SUPABASE == "Supabase (optional)"

NoLoad == [done |-> FALSE, backend |-> "", sid |-> "", user |-> "", rows |-> <<>>]

NoSave == [done |-> FALSE, backend |-> "", sid |-> "", turns |-> <<>>]

(* lines 264-270 *)
LoadHandlerNoSystem(s, in, nm, sid) ==
    LET bySession == in.scope = "Session"
        sidArg    == IF bySession THEN sid ELSE NONE
        userArg   == IF bySession THEN NONE ELSE nm
        r == sqlite_load_messages(s.db, sidArg, userArg, DefaultLimit, FALSE)
    IN  [s EXCEPT !.messages = Turns(r.rows)]

LoadHandler(s, in, nm, sid) ==
    LET bySession == in.scope = "Session"
        sidArg    == IF bySession THEN sid ELSE NONE
        userArg   == IF bySession THEN NONE ELSE nm
    IN  IF in.backend = SQLITE
        THEN LET r == sqlite_load_messages(s.db, sidArg, userArg, DefaultLimit, in.loadFault)
             IN  IF r.raised
                 THEN [s EXCEPT !.raised = TRUE, !.faulted = @ \cup {<<"load", SQLITE>>}]
                 ELSE [s EXCEPT !.messages = <<Placeholder>> \o Turns(r.rows),
                                !.loaded = [done |-> TRUE, backend |-> SQLITE, sid |-> sidArg,
                                            user |-> userArg, rows |-> r.rows]]
        ELSE LET r == supabase_load_messages(s.sb, in.client, sidArg, userArg,
                                             DefaultLimit, in.loadFault)
             IN  [s EXCEPT !.messages = <<Placeholder>> \o Turns(r.rows),
                           !.warnings = @ \cup r.warnings,
                           !.faulted = IF in.client /\ in.loadFault
                                       THEN @ \cup {<<"load", SUPABASE>>} ELSE @,
                           !.loaded = [done |-> TRUE, backend |-> SUPABASE, sid |-> sidArg,
                                       user |-> userArg, rows |-> r.rows]]

(* lines 272-280 *)
SaveHandler(s, in, nm, sid) ==
    LET msgs_to_save == NonSystem(s.messages)
    IN  IF in.backend = SQLITE
        THEN LET r == sqlite_save_messages(s.db, sid, nm, msgs_to_save, in.saveFault)
             IN  IF r.raised
                 THEN [s EXCEPT !.db = r.table, !.raised = TRUE,
                                !.faulted = @ \cup {<<"save", SQLITE>>}]
                 ELSE [s EXCEPT !.db = r.table,
                                !.saved = [done |-> TRUE, backend |-> SQLITE, sid |-> sid,
                                           turns |-> Turns(r.rows)]]
        ELSE LET r == supabase_save_messages(s.sb, in.client, sid, nm, msgs_to_save,
                                             in.saveFault > 0)
             IN  [s EXCEPT !.sb = r.table,
                           !.warnings = @ \cup r.warnings,
                           !.faulted = IF in.client /\ in.saveFault > 0
                                       THEN @ \cup {<<"save", SUPABASE>>} ELSE @,
                           !.saved = IF in.client /\ in.saveFault = 0
                                     THEN [done |-> TRUE, backend |-> SUPABASE, sid |-> sid,
                                           turns |-> Turns(r.rows)]
                                     ELSE @]

(* lines 294-301 *)
TranscribeHandler(s, in, nm) ==
    LET text_from_audio == transcribe_audio(get_api_key(in.key[1], in.key[2], in.key[3]), in.stt)
    IN  IF NonEmpty(text_from_audio) /\ ~IsWarning(text_from_audio)
        THEN [s EXCEPT !.messages = Append(@, Msg("user",
                          IF nm # "" THEN WithName(nm, text_from_audio) ELSE text_from_audio))]
        ELSE [s EXCEPT !.warnings = @ \cup {"STT"}]

(* lines 303-306 *)
InputHandler(s, in, nm) ==
    [s EXCEPT !.messages = Append(@, Msg("user",
         IF nm # "" THEN WithName(nm, Txt(in.userText)) ELSE Txt(in.userText)))]

(* lines 312-322 *)
ReplyStepOffByOne(s, in) ==
    IF Len(s.messages) > 2 /\ s.messages[Len(s.messages)].role = "user"
    THEN LET r == call_openai_compatible(s.messages, in.prompt,
                                         get_api_key(in.key[1], in.key[2], in.key[3]),
                                         in.timeOk, in.http)
         IN  [s EXCEPT !.atReply = s.messages,
                       !.calls = @ + 1, !.posts = @ + r.posts, !.payload = r.payload,
                       !.resp = IF r.posts > 0 THEN in.http ELSE NoResp,
                       !.messages = Append(@, Msg("assistant", r.reply))]
    ELSE [s EXCEPT !.atReply = s.messages]

ReplyStep(s, in) ==
    IF Len(s.messages) >= 2 /\ s.messages[Len(s.messages)].role = "user"
    THEN LET r == call_openai_compatible(s.messages, in.prompt,
                                         get_api_key(in.key[1], in.key[2], in.key[3]),
                                         in.timeOk, in.http)
         IN  [s EXCEPT !.atReply = s.messages,
                       !.calls = @ + 1, !.posts = @ + r.posts, !.payload = r.payload,
                       !.resp = IF r.posts > 0 THEN in.http ELSE NoResp,
                       !.messages = Append(@, Msg("assistant", r.reply))]
    ELSE [s EXCEPT !.atReply = s.messages]

RunScript(in) ==
    LET nm  == IF in.nameIn # "" /\ in.nameIn # name THEN in.nameIn ELSE name
        sid == in.sidIn
        s0  == [messages |-> messages, db |-> db, sb |-> sb, raised |-> FALSE,
                warnings |-> {}, loaded |-> NoLoad, saved |-> saved, faulted |-> {},
                calls |-> 0, posts |-> 0, payload |-> <<>>, resp |-> NoResp,
                atReply |-> <<>>, name |-> nm, session_id |-> sid]
        s1  == IF in.btnLoad THEN LoadHandler(s0, in, nm, sid) ELSE s0
        s2  == IF in.btnSave /\ ~s1.raised THEN SaveHandler(s1, in, nm, sid) ELSE s1
        s3  == IF in.btnStt /\ ~s2.raised THEN TranscribeHandler(s2, in, nm) ELSE s2
        s4  == IF in.userText # "" /\ ~s3.raised THEN InputHandler(s3, in, nm) ELSE s3
    IN  IF ~s4.raised THEN ReplyStep(s4, in) ELSE s4

Script(in, maxRows) ==
    \E s \in {RunScript(in)} :
        /\ Len(s.messages) <= MaxMsgs
        /\ Len(s.db) + Len(s.sb) <= maxRows
        /\ name' = s.name
        /\ session_id' = s.session_id
        /\ messages' = s.messages
        /\ db' = s.db
        /\ sb' = s.sb
        /\ raised' = s.raised
        /\ warnings' = s.warnings
        /\ loaded' = s.loaded
        /\ saved' = s.saved
        /\ faulted' = s.faulted
        /\ calls' = s.calls
        /\ posts' = s.posts
        /\ payload' = s.payload
        /\ resp' = s.resp
        /\ atReply' = s.atReply
        /\ system_prompt' = in.prompt
        /\ UNCHANGED <<ctx, lock, cfg>>

(***************************************************************************)
(* What the user and the collaborators may do in a run.  Spec explores the *)
(* conversation with every endpoint outcome over a small store; SpecStore  *)
(* explores the stores with every session and user over few outcomes.      *)
(***************************************************************************)
NoKey == <<<<>>, Unset, Unset>>
HasKey == <<<<>>, Unset, [set |-> TRUE, val |-> <<"X">>]>>
OkReply == Response(200, 20, TRUE, "a1")
OkVoice == Response(200, 20, TRUE, "hi")

Https == {Transport, OkReply, Response(200, 20, TRUE, ""), Response(200, 20, FALSE, ""),
          Response(500, 12, FALSE, ""), Response(500, 401, FALSE, "")}

DefaultPrompt == "You are ALISA, a warm, encouraging, Gen Z mentor"

ChatEnv == [names |-> {""}, sids |-> {"s1"}, keys |-> {NoKey, HasKey},
            https |-> Https,
            stts |-> {Transport, OkVoice, Response(200, 20, TRUE, "")},
            prompts |-> {DefaultPrompt, "Be brief."}, times |-> {TRUE},
            clients |-> {TRUE}, loadFaults |-> BOOLEAN, saveFaults |-> {0, 1},
            maxRows |-> MaxChatRows]

StoreEnv == [names |-> {"", "kam"}, sids |-> {"", "s1"}, keys |-> {HasKey},
             https |-> {OkReply},
             stts |-> {OkVoice, Response(500, 301, FALSE, "")},
             prompts |-> {DefaultPrompt}, times |-> BOOLEAN,
             clients |-> BOOLEAN, loadFaults |-> BOOLEAN, saveFaults |-> 0..MaxBatch,
             maxRows |-> MaxRows]

Quiet == [nameIn |-> name, sidIn |-> session_id, backend |-> SQLITE, scope |-> "Session",
          client |-> FALSE, loadFault |-> FALSE, saveFault |-> 0, btnLoad |-> FALSE,
          btnSave |-> FALSE, btnStt |-> FALSE, stt |-> Transport, userText |-> "",
          key |-> NoKey, http |-> Transport, timeOk |-> FALSE, prompt |-> system_prompt]

EditName(E) == \E n \in E.names : Script([Quiet EXCEPT !.nameIn = n], E.maxRows)

EditSessionId(E) == \E sid \in E.sids : Script([Quiet EXCEPT !.sidIn = sid], E.maxRows)

EditSystemPrompt(E) == \E p \in E.prompts : Script([Quiet EXCEPT !.prompt = p], E.maxRows)

LoadPreviousMessages(E) ==
    \E b \in {SQLITE, SUPABASE}, sc \in {"Session", "User"}, cl \in E.clients,
       f \in E.loadFaults :
        Script([Quiet EXCEPT !.btnLoad = TRUE, !.backend = b, !.scope = sc,
                             !.client = cl, !.loadFault = f], E.maxRows)

SaveThisChat(E) ==
    \E b \in {SQLITE, SUPABASE}, cl \in E.clients, f \in E.saveFaults :
        Script([Quiet EXCEPT !.btnSave = TRUE, !.backend = b, !.client = cl,
                             !.saveFault = f], E.maxRows)

TranscribeAndSend(E) ==
    \E k \in E.keys, a \in E.stts, h \in E.https, t \in E.times :
        Script([Quiet EXCEPT !.btnStt = TRUE, !.stt = a, !.key = k, !.http = h,
                             !.timeOk = t], E.maxRows)

ChatInput(E) ==
    \E k \in E.keys, h \in E.https, t \in E.times :
        Script([Quiet EXCEPT !.userText = "hi", !.key = k, !.http = h,
                             !.timeOk = t], E.maxRows)

(* A run in which two or more of the four triggers are set at once. *)
RerunCombined(E) ==
    \E ld \in BOOLEAN, sv \in BOOLEAN, vo \in BOOLEAN, ty \in BOOLEAN,
       b \in {SQLITE, SUPABASE}, h \in {OkReply} :
        /\ Cardinality({x \in {<<1, ld>>, <<2, sv>>, <<3, vo>>, <<4, ty>>} : x[2]}) >= 2
        /\ Script([Quiet EXCEPT !.btnLoad = ld, !.btnSave = sv, !.btnStt = vo,
                                !.userText = IF ty THEN "hi" ELSE "", !.stt = OkVoice,
                                !.backend = b, !.client = TRUE, !.key = HasKey,
                                !.http = h, !.timeOk = TRUE], E.maxRows)

Contexts == {1, 2}

UserOf(c) == IF c = 1 THEN "a" ELSE "b"

IdleCtx(ms) == [pc |-> "idle", msgs |-> ms, i |-> 0, conn |-> sqlite_connect, failedAt |-> 0]

NoCtx == [c \in Contexts |-> IdleCtx(<<>>)]

NoCfg == [explicit |-> <<>>, env |-> Unset, sec |-> Unset,
          api_key |-> get_api_key(<<>>, Unset, Unset),
          model |-> get_model(<<>>, Unset, Unset)]

Init ==
    /\ messages = <<Placeholder>>
    /\ name = ""
    /\ session_id = "s1"
    /\ db = <<>>
    /\ sb = <<>>
    /\ raised = FALSE
    /\ warnings = {}
    /\ loaded = NoLoad
    /\ saved = NoSave
    /\ faulted = {}
    /\ calls = 0
    /\ posts = 0
    /\ payload = <<>>
    /\ resp = NoResp
    /\ atReply = <<Placeholder>>
    /\ system_prompt = DefaultPrompt
    /\ ctx = NoCtx
    /\ lock = 0
    /\ cfg = NoCfg

Next ==
    \/ EditName(ChatEnv)
    \/ EditSessionId(ChatEnv)
    \/ EditSystemPrompt(ChatEnv)
    \/ LoadPreviousMessages(ChatEnv)
    \/ SaveThisChat(ChatEnv)
    \/ TranscribeAndSend(ChatEnv)
    \/ ChatInput(ChatEnv)
    \/ RerunCombined(ChatEnv)

Spec == Init /\ [][Next]_vars

NextStore ==
    \/ EditName(StoreEnv)
    \/ EditSessionId(StoreEnv)
    \/ EditSystemPrompt(StoreEnv)
    \/ LoadPreviousMessages(StoreEnv)
    \/ SaveThisChat(StoreEnv)
    \/ TranscribeAndSend(StoreEnv)
    \/ ChatInput(StoreEnv)

SpecStore == Init /\ [][NextStore]_vars

(***************************************************************************)
(* SpecSave: two contexts run sqlite_save_messages (lines 111-120) against *)
(* the same database file under the same session_id, one statement per     *)
(* step.  A connection's first INSERT takes the file's write lock, which   *)
(* it keeps until it commits or is dropped; a cur.execute may raise        *)
(* (a locked database after the busy timeout, an I/O error, a value that   *)
(* cannot be bound).                                                       *)
(***************************************************************************)
SharedSession == "s1"

TurnChoices == {Msg("user", Txt("hi")), Msg("assistant", Txt("a1"))}

CtxLists == {<<Placeholder>> \o t : t \in UNION {[1..n -> TurnChoices] : n \in 0..MaxBatch}}

PriorTables == {<<>>, <<Row(SharedSession, "old", Msg("user", Txt("hi")))>>}

InitSave ==
    /\ messages = <<Placeholder>>
    /\ name = ""
    /\ session_id = SharedSession
    /\ db \in PriorTables
    /\ sb = <<>>
    /\ raised = FALSE
    /\ warnings = {}
    /\ loaded = NoLoad
    /\ saved = NoSave
    /\ faulted = {}
    /\ calls = 0
    /\ posts = 0
    /\ payload = <<>>
    /\ resp = NoResp
    /\ atReply = <<Placeholder>>
    /\ system_prompt = DefaultPrompt
    /\ ctx \in [Contexts -> {IdleCtx(ms) : ms \in CtxLists}]
    /\ lock = 0
    /\ cfg = NoCfg

(* line 112-113 *)
SaveConnect(c) ==
    /\ ctx[c].pc = "idle"
    /\ ctx' = [ctx EXCEPT ![c].pc = "loop", ![c].i = 1, ![c].conn = sqlite_connect]
    /\ UNCHANGED <<db, lock, cfg>>
    /\ UNCHANGED appVars

(* lines 114-116 *)
SaveSkipSystem(c) ==
    /\ ctx[c].pc = "loop"
    /\ ctx[c].i <= Len(ctx[c].msgs)
    /\ ctx[c].msgs[ctx[c].i].role = "system"
    /\ ctx' = [ctx EXCEPT ![c].i = @ + 1]
    /\ UNCHANGED <<db, lock, cfg>>
    /\ UNCHANGED appVars

(* lines 117-118, the statement succeeds *)
SaveInsert(c) ==
    /\ ctx[c].pc = "loop"
    /\ ctx[c].i <= Len(ctx[c].msgs)
    /\ ctx[c].msgs[ctx[c].i].role # "system"
    /\ lock \in {0, c}
    /\ lock' = c
    /\ ctx' = [ctx EXCEPT ![c].i = @ + 1,
                          ![c].conn = sqlite_execute(@, Row(SharedSession, UserOf(c),
                                                            ctx[c].msgs[ctx[c].i]))]
    /\ UNCHANGED <<db, cfg>>
    /\ UNCHANGED appVars

(* lines 117-118, the statement raises: lines 119-120 are not reached *)
SaveInsertRaises(c) ==
    /\ ctx[c].pc = "loop"
    /\ ctx[c].i <= Len(ctx[c].msgs)
    /\ ctx[c].msgs[ctx[c].i].role # "system"
    /\ ctx' = [ctx EXCEPT ![c].pc = "raised", ![c].failedAt = Len(ctx[c].conn.pending) + 1]
    /\ UNCHANGED <<db, lock, cfg>>
    /\ UNCHANGED appVars

(* the connection of a save that raised is dropped, never committed *)
SaveConnDropped(c) ==
    /\ ctx[c].pc = "raised"
    /\ db' = sqlite_abandon(db, ctx[c].conn)
    /\ lock' = IF lock = c THEN 0 ELSE lock
    /\ ctx' = [ctx EXCEPT ![c].pc = "dropped", ![c].conn = sqlite_connect]
    /\ UNCHANGED cfg
    /\ UNCHANGED appVars

(* lines 119-120 *)
SaveCommit(c) ==
    /\ ctx[c].pc = "loop"
    /\ ctx[c].i > Len(ctx[c].msgs)
    /\ db' = sqlite_commit(db, ctx[c].conn)
    /\ lock' = IF lock = c THEN 0 ELSE lock
    /\ ctx' = [ctx EXCEPT ![c].pc = "done", ![c].conn = sqlite_connect]
    /\ UNCHANGED cfg
    /\ UNCHANGED appVars

NextSave ==
    \E c \in Contexts :
        \/ SaveConnect(c)
        \/ SaveSkipSystem(c)
        \/ SaveInsert(c)
        \/ SaveInsertRaises(c)
        \/ SaveConnDropped(c)
        \/ SaveCommit(c)

SpecSave == InitSave /\ [][NextSave]_vars

(***************************************************************************)
(* SpecCfg: the sidebar value, the environment variable and the secret     *)
(* change, and get_api_key / get_model (lines 171-177) resolve them anew.  *)
(***************************************************************************)
Resolve(e, v, s) ==
    /\ cfg' = [explicit |-> e, env |-> v, sec |-> s,
               api_key |-> get_api_key(e, v, s), model |-> get_model(e, v, s)]
    /\ UNCHANGED <<db, ctx, lock>>
    /\ UNCHANGED appVars

SetExplicit == \E e \in Strs : Resolve(e, cfg.env, cfg.sec)

SetEnv == \E v \in Opt(Strs) : Resolve(cfg.explicit, v, cfg.sec)

SetSecret == \E s \in Opt(Strs) : Resolve(cfg.explicit, cfg.env, s)

NextCfg == SetExplicit \/ SetEnv \/ SetSecret

SpecCfg == Init /\ [][NextCfg]_vars

(***************************************************************************)
(* Properties.                                                             *)
(***************************************************************************)
Last(q) == q[Len(q)]

EndsWithUser(q) == Len(q) >= 2 /\ Last(q).role = "user"

(* What a load by session_id alone would return now from backend b. *)
LoadBySession(b, sid) ==
    Turns(IF b = SQLITE
          THEN sqlite_load_messages(db, sid, NONE, DefaultLimit, FALSE).rows
          ELSE supabase_load_messages(sb, TRUE, sid, NONE, DefaultLimit, FALSE).rows)

RECURSIVE IsMerge(_, _, _)
IsMerge(l, a, b) ==
    IF l = <<>> THEN a = <<>> /\ b = <<>>
    ELSE \/ a # <<>> /\ Head(l) = Head(a) /\ IsMerge(Tail(l), Tail(a), b)
         \/ b # <<>> /\ Head(l) = Head(b) /\ IsMerge(Tail(l), a, Tail(b))

(* C1: every backend I/O fault of a run is caught at the backend boundary: the run *)
(* does not end in an exception, a warning is recorded, a faulted load leaves the  *)
(* conversation with no loaded turn, and the run goes on to the reply step.        *)
C1_BackendFaultsCaught ==
    faulted # {} =>
        /\ ~raised
        /\ warnings # {}
        /\ atReply # <<>>
        /\ (\E f \in faulted : f[1] = "load") => loaded.done /\ loaded.rows = <<>>

(* C2: the conversation holds exactly one system turn, and it is the first turn. *)
C2_OneSystemTurnAtHead ==
    /\ Len(messages) >= 1
    /\ messages[1].role = "system"
    /\ \A i \in 2..Len(messages) : messages[i].role # "system"

C2_LoadedThenAtHead ==
    /\ loaded.done
    /\ Len(loaded.rows) >= 2
    /\ Len(messages) >= 1 + Len(loaded.rows)

(* C3 as claimed: after a non-empty save that reached storage under a (non-empty) *)
(* session_id, a load by that session_id returns exactly the saved turns.         *)
C3_RoundTripExact ==
    (saved.done /\ saved.turns # <<>> /\ Truthy(saved.sid)) =>
        LoadBySession(saved.backend, saved.sid) = saved.turns

(* C3 as amended: after a save of n >= 1 turns (n within the load limit) that reached *)
(* storage under a non-empty session_id, a load by that session_id returns at least  *)
(* n turns and its last n turns are the saved turns, in the order saved; rows stored *)
(* earlier under that session_id come before them.                                   *)
C3_RoundTripSuffix ==
    (saved.done /\ saved.turns # <<>> /\ Truthy(saved.sid)
        /\ Len(saved.turns) <= DefaultLimit) =>
        LET l == LoadBySession(saved.backend, saved.sid)
            n == Len(saved.turns)
        IN  /\ Len(l) >= n
            /\ SubSeq(l, Len(l) - n + 1, Len(l)) = saved.turns

C3_SavedAfterEarlierRows ==
    /\ saved.done
    /\ saved.turns # <<>>
    /\ Truthy(saved.sid)
    /\ Len(LoadBySession(saved.backend, saved.sid)) > Len(saved.turns)

(* C4: a load never returns a row that matches neither the session_id nor the *)
(* user_name it was given.                                                    *)
C4_NoForeignRow ==
    loaded.done =>
        \A i \in 1..Len(loaded.rows) :
            \/ loaded.rows[i].session_id = loaded.sid
            \/ loaded.rows[i].user_name = loaded.user

(* C5 as claimed: after the save of context c raised on its k-th insert, a load by *)
(* the session_id sees exactly the k-1 turns of c inserted before the failure.     *)
C5_InsertsBeforeFailureStay ==
    \A c \in Contexts :
        ctx[c].pc = "dropped" =>
            SelectSeq(sqlite_select(db, SharedSession, NONE, DefaultLimit),
                      LAMBDA r : r.user_name = UserOf(c))
              = SubSeq(RowsOf(SharedSession, UserOf(c), NonSystem(ctx[c].msgs)),
                       1, ctx[c].failedAt - 1)

(* C5 as amended: after the save of context c raised on its k-th insert, the inserts *)
(* after k did not occur and the k-1 inserts before it are lost with the transaction *)
(* that was never committed: a load by the session_id sees no turn of that save.     *)
C5_FailedSaveLeavesNoRow ==
    \A c \in Contexts :
        ctx[c].pc \in {"raised", "dropped"} =>
            /\ Len(ctx[c].conn.pending) < ctx[c].failedAt
            /\ SelectSeq(sqlite_select(db, SharedSession, NONE, DefaultLimit),
                         LAMBDA r : r.user_name = UserOf(c)) = <<>>

C5_RaisedAfterAnInsert ==
    \E c \in Contexts : ctx[c].pc = "dropped" /\ ctx[c].failedAt >= 2

(* What the claimed precedence gives: the first non-empty source, else the default. *)
FirstNonEmpty(e, v, sec, default) ==
    IF e # <<>> THEN e
    ELSE IF v.set /\ v.val # <<>> THEN v.val
    ELSE IF sec.set /\ sec.val # <<>> THEN sec.val
    ELSE default

(* C6: api_key and model resolve to the first non-empty of the explicit input, the *)
(* environment variable and the stored secret, trimmed; with none non-empty,       *)
(* api_key is empty and model is the hardcoded default.                            *)
C6_FirstNonEmptyWins ==
    /\ cfg.api_key = strip(FirstNonEmpty(cfg.explicit, cfg.env, cfg.sec, <<>>))
    /\ cfg.model = strip(FirstNonEmpty(cfg.explicit, cfg.env, cfg.sec, DefaultModelName))

(* C7: a run that sent a completion request sent exactly one and did not end in an *)
(* exception; on a status other than 200 the reply is the API error warning with   *)
(* that status and at most the first 400 characters of the body, on a transport    *)
(* fault or a body that is not JSON it is a warning; the reply is the assistant    *)
(* turn appended to the conversation.                                              *)
C7_CompletionFailureIsAReply ==
    posts >= 1 =>
        /\ posts = 1
        /\ calls = 1
        /\ ~raised
        /\ messages = Append(atReply, Msg("assistant", Last(messages).content))
        /\ (resp.kind = "response" /\ resp.status # 200) =>
               /\ Last(messages).content.tag = "API error"
               /\ Last(messages).content.code = resp.status
               /\ Last(messages).content.blen <= BodyCut
               /\ Last(messages).content.blen = Min(resp.blen, BodyCut)
        /\ (resp.kind = "transport" \/ (resp.status = 200 /\ ~resp.json)) =>
               IsWarning(Last(messages).content)

C7_LongErrorBodyCut ==
    /\ posts = 1
    /\ resp.status = 500
    /\ resp.blen > BodyCut
    /\ Last(messages).role = "assistant"
    /\ Last(messages).content.tag = "API error"

(* C8: the messages of a completion request are one system message carrying the  *)
(* system prompt configured now, not the placeholder, followed by every turn of  *)
(* the conversation after the placeholder, each a user or assistant turn, in the *)
(* conversation's order.                                                         *)
C8_PayloadIsPromptThenHistory ==
    posts >= 1 =>
        /\ Len(payload) = Len(atReply)
        /\ payload[1].role = "system"
        /\ payload[1].content.text = system_prompt
        /\ payload[1].content.text # Placeholder.content.text
        /\ \A i \in 2..Len(payload) :
               /\ payload[i] = atReply[i]
               /\ payload[i].role \in {"user", "assistant"}

C8_PayloadWithHistory ==
    /\ posts = 1
    /\ Len(payload) >= 4
    /\ system_prompt = "Be brief."

C10_NeverEndsWithUser ==
    /\ Last(messages).role # "user"
    /\ ~raised =>
           IF EndsWithUser(atReply)
           THEN /\ calls = 1
                /\ Len(messages) = Len(atReply) + 1
                /\ SubSeq(messages, 1, Len(atReply)) = atReply
                /\ Last(messages).role = "assistant"
           ELSE /\ calls = 0
                /\ messages = atReply

C10_LoadedThenReplied ==
    /\ loaded.done
    /\ Len(loaded.rows) >= 2
    /\ calls = 1
    /\ Len(atReply) = Len(loaded.rows) + 2
    /\ Last(messages).role = "assistant"

====
